---- MODULE Spec2Model ----
(***************************************************************************)
(* Snowflake ID generator (src/snowflake/snowflake.rs): one generator      *)
(* instance behind a mutex, driven by several threads, reading a wall      *)
(* clock that may tick forward or be stepped backward.                     *)
(*                                                                         *)
(* Clock values are milliseconds relative to the generator's epoch         *)
(* (now_ms - twepoch); a negative value is a wall clock before the epoch.  *)
(***************************************************************************)
EXTENDS Integers, Sequences, FiniteSets, TLC

\* ------------------------------------------------------------------ bounds
\* Largest clock value (ms since the epoch) the model explores.
MaxClock == 3
\* Number of backward steps the wall clock may take in one behaviour.
MaxJumps == 2
\* Number of get_next_id calls in one behaviour.
MaxCalls == 3

\* ------------------------------------------------------------ bit helpers
RECURSIVE Pow2(_)
Pow2(n) == IF n = 0 THEN 1 ELSE 2 * Pow2(n - 1)

\* a & b on naturals
RECURSIVE BitAnd(_, _)
BitAnd(a, b) ==
    IF a = 0 \/ b = 0 THEN 0
    ELSE (a % 2) * (b % 2) + 2 * BitAnd(a \div 2, b \div 2)

\* a | b on naturals
RECURSIVE BitOr(_, _)
BitOr(a, b) ==
    IF a = 0 THEN b
    ELSE IF b = 0 THEN a
    ELSE (IF a % 2 = 1 \/ b % 2 = 1 THEN 1 ELSE 0) + 2 * BitOr(a \div 2, b \div 2)

\* x << n and x >> n on naturals (no bit is shifted out within the bounds)
Shl(x, n) == x * Pow2(n)
Shr(x, n) == x \div Pow2(n)

\* Option<T>
None == [some |-> FALSE, v |-> 0]
Some(x) == [some |-> TRUE, v |-> x]

\* ---------------------------------------------------------- configuration
\* impl Default for SnowflakeConfig
DefaultConfig == [worker_id_bits |-> 8, sequence_bits |-> 12, max_backward_ms |-> 10]

\* A SnowflakeConfig passed to SnowflakeIdWorker::new(Some(..)): two IDs per
\* millisecond and a tolerance of one millisecond.
NarrowConfig == [worker_id_bits |-> 8, sequence_bits |-> 1, max_backward_ms |-> 1]

Configs == {DefaultConfig, NarrowConfig}

\* worker_id: u8, as resolved by init_worker_id
WorkerIds == {7, 255}

\* Mutation: the worker field is shifted by the worker width, not the sequence width.
worker_id_shift_Swapped(cfg) == cfg.worker_id_bits

\* let worker_id_shift = config.sequence_bits;
worker_id_shift(cfg) == cfg.sequence_bits

\* Mutation: the timestamp starts at bit 22, leaving ten bits to the worker field.
timestamp_shift_TenBitWorker(cfg) == cfg.worker_id_bits + cfg.sequence_bits + 2

\* let timestamp_shift = config.worker_id_bits + config.sequence_bits;
timestamp_shift(cfg) == cfg.worker_id_bits + cfg.sequence_bits

\* let sequence_mask = (1u64 << config.sequence_bits) - 1;
sequence_mask(cfg) == Shl(1, cfg.sequence_bits) - 1

\* ------------------------------------------------------------------ state
Threads == {"t1", "t2"}
NoThread == "none"

VARIABLES
    clock,           \* the wall clock, ms relative to twepoch
    jumps,           \* backward steps the clock has taken
    config,          \* SnowflakeIdWorker.config
    worker_id,       \* SnowflakeIdWorker.worker_id
    sequence,        \* SnowflakeIdWorker.sequence
    last_timestamp,  \* SnowflakeIdWorker.last_timestamp
    lock,            \* owner of the GLOBAL_WORKER mutex, or NoThread
    pc,              \* per thread: where it is in get_next_id / demo
    timestamp,       \* next_id's local `timestamp` (of the thread in next_id)
    diff,            \* next_id's local `diff`
    call,            \* bookkeeping of the call in progress
    history,         \* bookkeeping: the completed calls, in order of return
    calls,           \* number of get_next_id calls made
    global_config,   \* the value held by GLOBAL_CONFIG
    config_lock,     \* owner of the GLOBAL_CONFIG mutex, or NoThread
    built,           \* GLOBAL_WORKER (a Lazy) has been initialised
    host,            \* what a constructor call finds: config argument, environment, files, network
    made,            \* what that constructor call returned
    fleet            \* IDs produced by two generator instances (two processes)

vars == <<clock, jumps, config, worker_id, sequence, last_timestamp, lock, pc,
          timestamp, diff, call, history, calls,
          global_config, config_lock, built, host, made, fleet>>

generator == <<config, worker_id, sequence, last_timestamp>>

\* The process-wide statics besides the generator's own fields.
globals == <<global_config, config_lock, built>>

\* State of the constructor runs and of the two-instance runs.
offline == <<host, made, fleet>>

aux == <<global_config, config_lock, built, host, made, fleet>>

NoHost == "none"
NoWorker == "none"
NoFleet == "none"

NoCall == [read |-> -1, pre_last |-> -1, pre_seq |-> 0, slept |-> FALSE, spun |-> FALSE]

\* SnowflakeIdWorker::new: sequence 0, last_timestamp -1
Init ==
    /\ clock = 0
    /\ jumps = 0
    /\ config \in Configs
    /\ worker_id \in WorkerIds
    /\ sequence = 0
    /\ last_timestamp = -1
    /\ lock = NoThread
    /\ pc = [t \in Threads |-> "idle"]
    /\ timestamp = 0
    /\ diff = 0
    /\ call = NoCall
    /\ history = <<>>
    /\ calls = 0
    /\ global_config = DefaultConfig
    /\ config_lock = NoThread
    /\ built = TRUE
    /\ host = NoHost
    /\ made = NoWorker
    /\ fleet = NoFleet

\* ------------------------------------------------------------------ clock
\* SystemTime::now() moves forward by one millisecond.
Tick ==
    /\ clock < MaxClock
    /\ UNCHANGED aux
    /\ clock' = clock + 1
    /\ UNCHANGED <<jumps, generator, lock, pc, timestamp, diff, call, history, calls>>

\* The wall clock is stepped backward (NTP step, operator, VM restore),
\* possibly to before the epoch.
BackJump ==
    /\ jumps < MaxJumps
    /\ UNCHANGED aux
    /\ \E c \in (-1) .. (clock - 1) : clock' = c
    /\ jumps' = jumps + 1
    /\ UNCHANGED <<generator, lock, pc, timestamp, diff, call, history, calls>>

\* time_gen: Ok(now_ms - twepoch) if now_ms >= twepoch, else Err(ConfigError)
time_gen(now) ==
    IF now >= 0 THEN [ok |-> TRUE, v |-> now, err |-> "none"]
    ELSE [ok |-> FALSE, v |-> 0, err |-> "ConfigError"]

\* -------------------------------------------------------------- next_id
\* Mutation: the worker field is left out of the ID.
AssembleId_NoWorker(cfg, wid, ts, seq) ==
    BitOr(Shl(ts, timestamp_shift(cfg)), seq)

\* id = (timestamp << timestamp_shift) | (worker_id << worker_id_shift) | sequence
AssembleId(cfg, wid, ts, seq) ==
    BitOr(BitOr(Shl(ts, timestamp_shift(cfg)), Shl(wid, worker_id_shift(cfg))), seq)

\* Mutation: the increment is lost.
NextSequence_NoIncrement(seq, cfg) == BitAnd(seq, sequence_mask(cfg))

\* Mutation: the increment is not masked.
NextSequence_Unmasked(seq, cfg) == seq + 1

\* (self.sequence + 1) & self.sequence_mask
NextSequence(seq, cfg) == BitAnd(seq + 1, sequence_mask(cfg))

\* diff <= self.config.max_backward_ms
WithinTolerance(d, cfg) == d <= cfg.max_backward_ms

\* Mutation: the wait ends as soon as the clock is not behind.
StillWaiting_Strict(ts, last) == ts < last

\* Mutation: the spin never sees the clock pass last_timestamp.
StillWaiting_Forever(ts, last) == TRUE

\* wait_next_millis: while timestamp <= last_timestamp
StillWaiting(ts, last) == ts <= last

\* Mutation: no mutual exclusion.
LockFree_Always == TRUE

\* GLOBAL_WORKER.lock(): the mutex is free
LockFree == lock = NoThread

\* The call of thread t returns: the MutexGuard is dropped, the outcome recorded.
Return(t, kind, id, c) ==
    /\ lock' = NoThread
    /\ pc' = [pc EXCEPT ![t] = "idle"]
    /\ timestamp' = 0
    /\ diff' = 0
    /\ call' = NoCall
    /\ history' = Append(history,
                    [kind |-> kind, id |-> id,
                     read |-> c.read, pre_last |-> c.pre_last, pre_seq |-> c.pre_seq,
                     last |-> last_timestamp', seq |-> sequence',
                     slept |-> c.slept, spun |-> c.spun])

\* self.last_timestamp = timestamp; assemble the ID; Ok(id)
Commit(t, ts, seq, c) ==
    /\ sequence' = seq
    /\ last_timestamp' = ts
    /\ Return(t, "Ok", AssembleId(config, worker_id, ts, seq), c)

\* Mutation: an error return resets the sequence.
Fail_ResetsSequence(t, kind, c) ==
    /\ sequence' = 0
    /\ UNCHANGED last_timestamp
    /\ Return(t, kind, 0, c)

\* Mutation: a failure unwinds the calling thread, the guard is never dropped.
Fail_Panics(t, kind, c) ==
    /\ pc' = [pc EXCEPT ![t] = "panicked"]
    /\ UNCHANGED <<sequence, last_timestamp, lock, timestamp, diff, call, history>>

\* return Err(..) from next_id: the return itself writes nothing
Fail(t, kind, c) ==
    /\ UNCHANGED <<sequence, last_timestamp>>
    /\ Return(t, kind, 0, c)

\* The sequence logic of next_id for a timestamp ts that was read successfully.
SequenceStep(t, ts, c) ==
    IF ts = last_timestamp
    THEN LET s == NextSequence(sequence, config) IN
         IF s = 0
         THEN \* sequence exhausted: enter wait_next_millis(self.last_timestamp)
              /\ sequence' = s
              /\ UNCHANGED <<last_timestamp, lock, history, diff>>
              /\ timestamp' = ts
              /\ pc' = [pc EXCEPT ![t] = "wait_next_millis"]
              /\ call' = [c EXCEPT !.spun = TRUE]
         ELSE Commit(t, ts, s, c)
    ELSE Commit(t, ts, 0, c)

\* A thread calls get_next_id and waits for the mutex.
Call(t) ==
    /\ pc[t] = "idle"
    /\ UNCHANGED aux
    /\ calls < MaxCalls
    /\ calls' = calls + 1
    /\ pc' = [pc EXCEPT ![t] = "lock"]
    /\ UNCHANGED <<clock, jumps, generator, lock, timestamp, diff, call, history>>

\* GLOBAL_WORKER.lock().unwrap()
Acquire(t) ==
    /\ pc[t] = "lock"
    /\ UNCHANGED aux
    /\ built
    /\ LockFree
    /\ lock' = t
    /\ pc' = [pc EXCEPT ![t] = "time_gen"]
    /\ call' = [NoCall EXCEPT !.pre_last = last_timestamp, !.pre_seq = sequence]
    /\ UNCHANGED <<clock, jumps, generator, timestamp, diff, history, calls>>

\* next_id up to its first wait or its return: the first clock read, the
\* backward check, and (when the clock is not behind) the sequence logic.
FirstRead(t) ==
    /\ pc[t] = "time_gen"
    /\ UNCHANGED aux
    /\ UNCHANGED <<clock, jumps, config, worker_id, calls>>
    /\ LET r == time_gen(clock) IN
       IF ~r.ok THEN Fail(t, r.err, call)
       ELSE LET c == [call EXCEPT !.read = r.v] IN
            IF r.v < last_timestamp
            THEN LET d == last_timestamp - r.v IN
                 IF WithinTolerance(d, config)
                 THEN /\ timestamp' = r.v
                      /\ diff' = d
                      /\ pc' = [pc EXCEPT ![t] = "sleep"]
                      /\ call' = [c EXCEPT !.slept = TRUE]
                      /\ UNCHANGED <<sequence, last_timestamp, lock, history>>
                 ELSE Fail(t, "ClockBackward", c)
            ELSE SequenceStep(t, r.v, c)

\* Mutation: the guard is given up for the time of the sleep.
Sleep_ReleasesLock(t) ==
    /\ pc[t] = "sleep"
    /\ UNCHANGED aux
    /\ clock + diff + 1 <= MaxClock
    /\ clock' = clock + diff + 1
    /\ lock' = NoThread
    /\ pc' = [pc EXCEPT ![t] = "reread"]
    /\ UNCHANGED <<jumps, generator, timestamp, diff, call, history, calls>>

\* thread::sleep(Duration::from_millis(diff + 1)): diff + 1 ms pass
Sleep(t) ==
    /\ pc[t] = "sleep"
    /\ UNCHANGED aux
    /\ clock + diff + 1 <= MaxClock
    /\ clock' = clock + diff + 1
    /\ pc' = [pc EXCEPT ![t] = "reread"]
    /\ UNCHANGED <<jumps, generator, lock, timestamp, diff, call, history, calls>>

\* Mutation: the re-read path clears the worker identity.
Reread_ClearsWorker(t) ==
    /\ pc[t] = "reread"
    /\ UNCHANGED aux
    /\ UNCHANGED <<clock, jumps, config, calls>>
    /\ worker_id' = 0
    /\ LET r == time_gen(clock) IN
       IF ~r.ok THEN Fail(t, r.err, call)
       ELSE SequenceStep(t, r.v, call)

\* timestamp = self.time_gen()? as i64 after the sleep, then the sequence logic
Reread(t) ==
    /\ pc[t] = "reread"
    /\ UNCHANGED aux
    /\ UNCHANGED <<clock, jumps, config, worker_id, calls>>
    /\ LET r == time_gen(clock) IN
       IF ~r.ok THEN Fail(t, r.err, call)
       ELSE SequenceStep(t, r.v, call)

\* One clock read of wait_next_millis.
WaitNextMillis(t) ==
    /\ pc[t] = "wait_next_millis"
    /\ UNCHANGED aux
    /\ UNCHANGED <<clock, jumps, config, worker_id, calls>>
    /\ LET r == time_gen(clock) IN
       IF ~r.ok THEN Fail(t, r.err, call)
       ELSE IF StillWaiting(r.v, last_timestamp)
            THEN \* thread::yield_now(), read again
                 UNCHANGED <<sequence, last_timestamp, lock, pc, timestamp, diff,
                             call, history>>
            ELSE Commit(t, r.v, sequence, call)

\* demo: let worker = GLOBAL_WORKER.lock().unwrap(); worker.get_worker_id()
DemoLock(t) ==
    /\ pc[t] = "idle"
    /\ UNCHANGED aux
    /\ built
    /\ LockFree
    /\ lock' = t
    /\ pc' = [pc EXCEPT ![t] = "demo"]
    /\ UNCHANGED <<clock, jumps, generator, timestamp, diff, call, history, calls>>

\* Mutation: the guard is not dropped when the peek ends.
DemoDrop_KeepsLock(t) ==
    /\ pc[t] = "demo"
    /\ pc' = [pc EXCEPT ![t] = "idle"]
    /\ UNCHANGED <<clock, jumps, generator, lock, timestamp, diff, call, history, calls, aux>>

\* demo: drop(worker)
DemoDrop(t) ==
    /\ pc[t] = "demo"
    /\ UNCHANGED aux
    /\ lock' = NoThread
    /\ pc' = [pc EXCEPT ![t] = "idle"]
    /\ UNCHANGED <<clock, jumps, generator, timestamp, diff, call, history, calls>>

Next ==
    \/ Tick
    \/ BackJump
    \/ \E t \in Threads : Call(t)
    \/ \E t \in Threads : Acquire(t)
    \/ \E t \in Threads : FirstRead(t)
    \/ \E t \in Threads : Sleep(t)
    \/ \E t \in Threads : Reread(t)
    \/ \E t \in Threads : WaitNextMillis(t)
    \/ \E t \in Threads : DemoLock(t)
    \/ \E t \in Threads : DemoDrop(t)

Spec == Init /\ [][Next]_vars

\* Scheduling: a running thread keeps executing (its clock reads, its sleep,
\* its guard drop are taken when they stay possible), and a thread blocked in
\* Mutex::lock gets the mutex if it is free again and again. Nothing is
\* assumed of the clock or of the callers.
Fairness ==
    \A t \in Threads :
        /\ SF_vars(Acquire(t))
        /\ WF_vars(FirstRead(t))
        /\ WF_vars(Sleep(t))
        /\ WF_vars(Reread(t))
        /\ WF_vars(WaitNextMillis(t))
        /\ WF_vars(DemoDrop(t))

\* One generator identity is enough here: worker_id plays no part in waiting.
InitFair == Init /\ worker_id = 7

\* The clock is stepped backward at most once.
NextFair ==
    \/ Tick
    \/ (jumps = 0 /\ BackJump)
    \/ \E t \in Threads : Call(t)
    \/ \E t \in Threads : Acquire(t)
    \/ \E t \in Threads : FirstRead(t)
    \/ \E t \in Threads : Sleep(t)
    \/ \E t \in Threads : Reread(t)
    \/ \E t \in Threads : WaitNextMillis(t)
    \/ \E t \in Threads : DemoLock(t)
    \/ \E t \in Threads : DemoDrop(t)

SpecFair == InitFair /\ [][NextFair]_vars /\ Fairness

\* ------------------------------------------- the statics and their locks
\* The generator's fields before GLOBAL_WORKER is initialised (no instance yet).
NoConfig == [worker_id_bits |-> 0, sequence_bits |-> 0, max_backward_ms |-> 0]
NoneConfig == None

\* config.unwrap_or_default()
unwrap_or_default(c) == IF c.some THEN c.v ELSE DefaultConfig

\* The process starts: no static has been touched; GLOBAL_CONFIG's first use
\* yields SnowflakeConfig::default().
InitGlobal ==
    /\ clock = 0
    /\ jumps = 0
    /\ config = NoConfig
    /\ worker_id = 0
    /\ sequence = 0
    /\ last_timestamp = -1
    /\ lock = NoThread
    /\ pc = [t \in Threads |-> "idle"]
    /\ timestamp = 0
    /\ diff = 0
    /\ call = NoCall
    /\ history = <<>>
    /\ calls = 0
    /\ global_config = DefaultConfig
    /\ config_lock = NoThread
    /\ built = FALSE
    /\ host = NoHost
    /\ made = NoWorker
    /\ fleet = NoFleet

\* Mutation: the initialiser runs at a dereference although a generator exists.
ForceWorker_Again(t) ==
    /\ pc[t] \in {"lock", "idle"}
    /\ built' = TRUE
    /\ config' = unwrap_or_default(NoneConfig)
    /\ worker_id' \in WorkerIds
    /\ sequence' = 0
    /\ last_timestamp' = -1
    /\ UNCHANGED <<clock, jumps, lock, pc, timestamp, diff, call, history, calls,
                   global_config, config_lock, offline>>

\* First dereference of GLOBAL_WORKER (in get_next_id or at the top of demo):
\* Lazy runs SnowflakeIdWorker::new(None) once.
ForceWorker(t) ==
    /\ pc[t] \in {"lock", "idle"}
    /\ ~built
    /\ built' = TRUE
    /\ config' = unwrap_or_default(NoneConfig)
    /\ worker_id' \in WorkerIds
    /\ sequence' = 0
    /\ last_timestamp' = -1
    /\ UNCHANGED <<clock, jumps, lock, pc, timestamp, diff, call, history, calls,
                   global_config, config_lock, offline>>

\* set_global_config is called: the thread waits for the GLOBAL_CONFIG mutex.
SetConfigCall(t) ==
    /\ pc[t] = "idle"
    /\ pc' = [pc EXCEPT ![t] = "config_lock"]
    /\ UNCHANGED <<clock, jumps, generator, lock, timestamp, diff, call, history,
                   calls, aux>>

\* GLOBAL_CONFIG.lock().unwrap()
SetConfigAcquire(t) ==
    /\ pc[t] = "config_lock"
    /\ config_lock = NoThread
    /\ config_lock' = t
    /\ pc' = [pc EXCEPT ![t] = "set_config"]
    /\ UNCHANGED <<clock, jumps, generator, lock, timestamp, diff, call, history,
                   calls, global_config, built, offline>>

\* Mutation: the store also reconfigures the generator that already exists.
SetConfigStore_Retroactive(t) ==
    /\ pc[t] = "set_config"
    /\ \E c \in Configs : global_config' = c /\ config' = c
    /\ config_lock' = NoThread
    /\ pc' = [pc EXCEPT ![t] = "idle"]
    /\ UNCHANGED <<clock, jumps, worker_id, sequence, last_timestamp, lock, timestamp,
                   diff, call, history, calls, built, offline>>

\* *guard = config; the guard is dropped at the end of the statement
SetConfigStore(t) ==
    /\ pc[t] = "set_config"
    /\ \E c \in Configs : global_config' = c
    /\ config_lock' = NoThread
    /\ pc' = [pc EXCEPT ![t] = "idle"]
    /\ UNCHANGED <<clock, jumps, generator, lock, timestamp, diff, call, history,
                   calls, built, offline>>

\* demo, last part: let config = GLOBAL_CONFIG.lock().unwrap()
DemoConfigLock(t) ==
    /\ pc[t] = "idle"
    /\ config_lock = NoThread
    /\ config_lock' = t
    /\ pc' = [pc EXCEPT ![t] = "demo_config"]
    /\ UNCHANGED <<clock, jumps, generator, lock, timestamp, diff, call, history,
                   calls, global_config, built, offline>>

\* demo returns: the config guard goes out of scope
DemoConfigDrop(t) ==
    /\ pc[t] = "demo_config"
    /\ config_lock' = NoThread
    /\ pc' = [pc EXCEPT ![t] = "idle"]
    /\ UNCHANGED <<clock, jumps, generator, lock, timestamp, diff, call, history,
                   calls, global_config, built, offline>>

\* The shared generator is built with the default configuration, whose 4096
\* sequence values per millisecond are out of reach of MaxCalls calls:
\* wait_next_millis is never entered here. The clock is stepped backward at
\* most once.
NextGlobal ==
    \/ Tick
    \/ (jumps = 0 /\ BackJump)
    \/ \E t \in Threads : ForceWorker(t)
    \/ \E t \in Threads : Call(t)
    \/ \E t \in Threads : Acquire(t)
    \/ \E t \in Threads : FirstRead(t)
    \/ \E t \in Threads : Sleep(t)
    \/ \E t \in Threads : Reread(t)
    \/ \E t \in Threads : DemoLock(t)
    \/ \E t \in Threads : DemoDrop(t)
    \/ \E t \in Threads : SetConfigCall(t)
    \/ \E t \in Threads : SetConfigAcquire(t)
    \/ \E t \in Threads : SetConfigStore(t)
    \/ \E t \in Threads : DemoConfigLock(t)
    \/ \E t \in Threads : DemoConfigDrop(t)

SpecGlobal == InitGlobal /\ [][NextGlobal]_vars

\* ---------------------------------------------------- strings and parsing
\* A string is a sequence of one-character strings.

\* char::is_whitespace for the characters that occur
White == {" ", "\t", "\r", "\n"}

RECURSIVE trim_start(_)
trim_start(s) == IF Len(s) > 0 /\ Head(s) \in White THEN trim_start(Tail(s)) ELSE s

RECURSIVE trim_end(_)
trim_end(s) ==
    IF Len(s) > 0 /\ s[Len(s)] \in White THEN trim_end(SubSeq(s, 1, Len(s) - 1)) ELSE s

\* str::trim
trim(s) == trim_end(trim_start(s))

\* str::starts_with
starts_with(s, p) == Len(s) >= Len(p) /\ SubSeq(s, 1, Len(p)) = p

\* Position of the first c in s, 0 if there is none.
RECURSIVE find(_, _, _)
find(s, c, i) ==
    IF i > Len(s) THEN 0 ELSE IF s[i] = c THEN i ELSE find(s, c, i + 1)

\* str::split(c), collected: the pieces between the separators
RECURSIVE split(_, _)
split(s, c) ==
    LET i == find(s, c, 1) IN
    IF i = 0 THEN <<s>>
    ELSE <<SubSeq(s, 1, i - 1)>> \o split(SubSeq(s, i + 1, Len(s)), c)

\* Iterator::nth on the pieces (zero-based)
nth(parts, n) == IF n + 1 <= Len(parts) THEN Some(parts[n + 1]) ELSE None

\* str::lines: split at "\n", a final empty piece dropped, one trailing "\r"
\* removed from each line
lines(content) ==
    LET raw == split(content, "\n")
        kept == IF raw[Len(raw)] = <<>> THEN SubSeq(raw, 1, Len(raw) - 1) ELSE raw
        strip(l) == IF Len(l) > 0 /\ l[Len(l)] = "\r" THEN SubSeq(l, 1, Len(l) - 1) ELSE l
    IN  [k \in 1 .. Len(kept) |-> strip(kept[k])]

DigitChars == {"0", "1", "2", "3", "4", "5", "6", "7", "8", "9"}
DigitValue(c) ==
    CASE c = "0" -> 0 [] c = "1" -> 1 [] c = "2" -> 2 [] c = "3" -> 3 [] c = "4" -> 4
      [] c = "5" -> 5 [] c = "6" -> 6 [] c = "7" -> 7 [] c = "8" -> 8 [] c = "9" -> 9
DigitChar(n) == CHOOSE c \in DigitChars : DigitValue(c) = n

\* The digit loop of u8::from_str: None at a non-digit or when the value
\* leaves 0..255.
RECURSIVE parse_digits(_, _)
parse_digits(s, acc) ==
    IF Len(s) = 0 THEN Some(acc)
    ELSE IF Head(s) \notin DigitChars THEN None
    ELSE LET n == acc * 10 + DigitValue(Head(s)) IN
         IF n > 255 THEN None ELSE parse_digits(Tail(s), n)

\* str::parse::<u8>().ok(): an optional "+", then at least one digit, nothing
\* else
parse_u8(s) ==
    LET body == IF Len(s) > 0 /\ Head(s) = "+" THEN Tail(s) ELSE s IN
    IF Len(body) = 0 THEN None ELSE parse_digits(body, 0)

\* u8 to_string: decimal, no padding
to_string(n) ==
    IF n >= 100 THEN <<DigitChar(n \div 100), DigitChar((n \div 10) % 10), DigitChar(n % 10)>>
    ELSE IF n >= 10 THEN <<DigitChar(n \div 10), DigitChar(n % 10)>>
    ELSE <<DigitChar(n)>>

\* Ipv4Addr to_string: the four octets in decimal, joined by "."
ip_to_string(o) ==
    to_string(o[1]) \o <<".">> \o to_string(o[2]) \o <<".">> \o to_string(o[3])
        \o <<".">> \o to_string(o[4])

\* One octet of str::parse::<Ipv4Addr>: 1 to 3 digits, no leading zero,
\* at most 255
parse_octet(s) ==
    IF Len(s) = 0 \/ Len(s) > 3 THEN None
    ELSE IF Len(s) > 1 /\ Head(s) = "0" THEN None
    ELSE parse_digits(s, 0)

\* str::parse::<Ipv4Addr>().ok()
parse_ipv4(s) ==
    LET parts == split(s, ".") IN
    IF Len(parts) # 4 THEN None
    ELSE IF \E k \in 1 .. 4 : ~parse_octet(parts[k]).some THEN None
    ELSE Some([k \in 1 .. 4 |-> parse_octet(parts[k]).v])

\* ------------------------------------------------- identity resolution
KeyDatacenter == <<"d", "a", "t", "a", "c", "e", "n", "t", "e", "r", "_", "i", "d">>
KeyMachine == <<"m", "a", "c", "h", "i", "n", "e", "_", "i", "d">>

\* The loop of parse_config from line k on; dc and m are the two Option<u8>.
RECURSIVE parse_lines(_, _, _, _)
parse_lines(ls, k, dc, m) ==
    IF k > Len(ls) THEN <<dc, m>>
    ELSE LET line == trim(ls[k])
             value == nth(split(line, "="), 1)
         IN  IF Len(line) = 0 \/ starts_with(line, <<"#">>)
             THEN parse_lines(ls, k + 1, dc, m)
             ELSE IF starts_with(line, KeyDatacenter)
             THEN parse_lines(ls, k + 1,
                              IF value.some THEN parse_u8(trim(value.v)) ELSE dc, m)
             ELSE IF starts_with(line, KeyMachine)
             THEN parse_lines(ls, k + 1, dc,
                              IF value.some THEN parse_u8(trim(value.v)) ELSE m)
             ELSE parse_lines(ls, k + 1, dc, m)

\* ((dc_id & 0x03) << 6) | (m_id & 0x3F)
config_worker_id(dc_id, m_id) == BitOr(Shl(BitAnd(dc_id, 3), 6), BitAnd(m_id, 63))

\* parse_config: Ok(Some(worker_id)) or Ok(None); it has no error return
parse_config(content) ==
    LET r == parse_lines(lines(content), 1, None, None) IN
    IF r[1].some /\ r[2].some THEN Some(config_worker_id(r[1].v, r[2].v)) ELSE None

\* try_config_mapping: the first path that can be read decides
try_config_mapping(h) ==
    IF h.local.some THEN parse_config(h.local.v)
    ELSE IF h.etc.some THEN parse_config(h.etc.v)
    ELSE None

\* Mutation: a failed probe reports the IPv6 loopback address.
get_local_ip_V6(h) ==
    IF h.probe.some THEN ip_to_string(h.probe.v) ELSE <<":", ":", "1">>

\* get_local_ip: the local address of a UDP socket connected to 8.8.8.8:80,
\* "127.0.0.1" when bind, connect or local_addr fails
get_local_ip(h) ==
    IF h.probe.some THEN ip_to_string(h.probe.v)
    ELSE <<"1", "2", "7", ".", "0", ".", "0", ".", "1">>

\* Mutation: the first two octets are used.
ip_worker_id_HighOctets(octets) ==
    BitOr(Shl(BitAnd(octets[1], 15), 4), BitAnd(octets[2], 15))

\* ((octets[2] & 0x0F) << 4) | (octets[3] & 0x0F), octets counted from 0
ip_worker_id(octets) == BitOr(Shl(BitAnd(octets[3], 15), 4), BitAnd(octets[4], 15))

\* generate_ip_based_worker_id
generate_ip_based_worker_id(h) ==
    LET addr == parse_ipv4(get_local_ip(h)) IN
    IF addr.some
    THEN [ok |-> TRUE, v |-> ip_worker_id(addr.v), err |-> "none"]
    ELSE IF ~h.hostname.some
    THEN [ok |-> FALSE, v |-> 0, err |-> "NetworkError"]
    ELSE [ok |-> TRUE, v |-> Len(h.hostname.v) % 256, err |-> "none"]

\* The outcome of init_worker_id: the worker_id, the strategy that set it and
\* the strategies that were tried, in order.
Resolved(w, by, tried) ==
    [ok |-> TRUE, err |-> "none", worker_id |-> w, by |-> by, tried |-> tried]

\* Mutation: the config file is asked before the environment variable.
init_worker_id_FileFirst(h) ==
    LET e == IF h.env.some THEN parse_u8(h.env.v) ELSE None
        c == try_config_mapping(h)
        g == generate_ip_based_worker_id(h)
    IN  IF c.some THEN Resolved(c.v, "config", <<"config">>)
        ELSE IF e.some THEN Resolved(e.v, "env", <<"config", "env">>)
        ELSE IF g.ok THEN Resolved(g.v, "ip", <<"config", "env", "ip">>)
        ELSE [ok |-> FALSE, err |-> g.err, worker_id |-> 0, by |-> "none",
              tried |-> <<"config", "env", "ip">>]

\* init_worker_id
init_worker_id(h) ==
    LET e == IF h.env.some THEN parse_u8(h.env.v) ELSE None
        c == try_config_mapping(h)
        g == generate_ip_based_worker_id(h)
    IN  IF e.some THEN Resolved(e.v, "env", <<"env">>)
        ELSE IF c.some THEN Resolved(c.v, "config", <<"env", "config">>)
        ELSE IF g.ok THEN Resolved(g.v, "ip", <<"env", "config", "ip">>)
        ELSE [ok |-> FALSE, err |-> g.err, worker_id |-> 0, by |-> "none",
              tried |-> <<"env", "config", "ip">>]

\* What a run of new finds on its host: the configuration argument, the build
\* profile (overflow checks on or off), SNOWFLAKE_WORKER_ID, the two config
\* files, the local address the UDP probe reports and the hostname. None is a
\* variable that is not set, a file that cannot be read, a probe or a hostname
\* lookup that fails.
WideConfig == [worker_id_bits |-> 60, sequence_bits |-> 4, max_backward_ms |-> 10]
ShiftOverflowConfig == [worker_id_bits |-> 0, sequence_bits |-> 64, max_backward_ms |-> 10]
AddOverflowConfig == [worker_id_bits |-> 200, sequence_bits |-> 100, max_backward_ms |-> 10]
SmallWorkerConfig == [worker_id_bits |-> 4, sequence_bits |-> 12, max_backward_ms |-> 10]
ConstructorConfigs ==
    {None, Some(NarrowConfig), Some(SmallWorkerConfig), Some(WideConfig),
     Some(ShiftOverflowConfig), Some(AddOverflowConfig)}
Builds == {"debug", "release"}

EnvValues ==
    {None, Some(<<"5", "0">>), Some(<<"2", "5", "5">>), Some(<<"2", "5", "6">>), Some(<<" ", "7">>), Some(<<"7", "x">>)}

Entry(key, eq, value) == key \o eq \o value \o <<"\n">>
Spaced == <<" ", "=", " ">>
Tight == <<"=">>
KeyMachineMax == KeyMachine \o <<"_", "m", "a", "x">>

FileComplete ==
    <<"#", " ", "i", "d", "s", "\n">> \o Entry(KeyDatacenter, Spaced, <<"2">>) \o <<"\n">>
        \o Entry(KeyMachine, Spaced, <<"5">>)
FileMasked ==
    Entry(KeyMachine, Spaced, <<"2", "0", "0">>) \o Entry(KeyDatacenter, Tight, <<"7">>)
FileCrLf ==
    <<" ">> \o KeyDatacenter \o <<"=", "3", "\r", "\n">> \o KeyMachine \o <<"\t", "=", "6", "3">>
FileNoMachine == Entry(KeyDatacenter, Spaced, <<"1">>)
FileMalformed ==
    KeyDatacenter \o <<" ", "1", "\n">> \o Entry(KeyMachine, Spaced, <<"x">>)
FileOtherKey ==
    Entry(KeyDatacenter, Spaced, <<"1">>) \o Entry(KeyMachine, Spaced, <<"5">>)
        \o Entry(KeyMachineMax, Spaced, <<"6", "3">>)
FileOnlyOtherKey ==
    Entry(KeyDatacenter, Spaced, <<"1">>) \o Entry(KeyMachineMax, Spaced, <<"7">>)
FileLarge ==
    Entry(KeyDatacenter, Spaced, <<"3", "0", "0">>) \o Entry(KeyMachine, Spaced, <<"5">>)
FileEtc == Entry(KeyDatacenter, Tight, <<"0">>) \o Entry(KeyMachine, Tight, <<"9">>)

LocalFiles ==
    {None, Some(<<>>), Some(FileComplete), Some(FileMasked), Some(FileCrLf),
     Some(FileNoMachine), Some(FileMalformed), Some(FileOtherKey),
     Some(FileOnlyOtherKey), Some(FileLarge)}
EtcFiles == {None, Some(FileEtc), Some(FileMalformed)}
Probes == {None, Some(<<192, 168, 1, 100>>), Some(<<10, 0, 255, 255>>), Some(<<172, 16, 16, 32>>)}
Hostnames == {None, Some(<<"n", "o", "d", "e", "1">>)}

Hosts ==
    [config : ConstructorConfigs, build : Builds, env : EnvValues, local : LocalFiles,
     etc : EtcFiles, probe : Probes, hostname : Hostnames]

\* No constructor call has returned yet.
NotMade ==
    [done |-> FALSE, ok |-> FALSE, err |-> "none", config |-> NoConfig, worker_id |-> 0,
     sequence |-> 0, last_timestamp |-> -1, by |-> "none", tried |-> <<>>]

\* The process aborts inside new (an arithmetic overflow check of a debug
\* build): no value is returned.
Panicked == [NotMade EXCEPT !.done = TRUE, !.err = "panic"]

\* SnowflakeIdWorker::new. worker_id_bits + sequence_bits is a u8 addition and
\* 1u64 << sequence_bits a u64 shift: out of range they panic in a build with
\* overflow checks and wrap in one without. The epoch is a constant valid
\* date in a fixed offset, so neither ConfigError of new can be returned.
new(c, h) ==
    LET cfg == unwrap_or_default(c)
        r == init_worker_id(h)
    IN  IF h.build = "debug" /\ cfg.worker_id_bits + cfg.sequence_bits > 255
        THEN Panicked
        ELSE IF h.build = "debug" /\ cfg.sequence_bits >= 64
        THEN Panicked
        ELSE IF ~r.ok
        THEN [NotMade EXCEPT !.done = TRUE, !.err = r.err, !.tried = r.tried]
        ELSE [done |-> TRUE, ok |-> TRUE, err |-> "none", config |-> cfg,
              worker_id |-> r.worker_id, sequence |-> 0, last_timestamp |-> -1,
              by |-> r.by, tried |-> r.tried]

InitResolve ==
    /\ clock = 0
    /\ jumps = 0
    /\ config = NoConfig
    /\ worker_id = 0
    /\ sequence = 0
    /\ last_timestamp = -1
    /\ lock = NoThread
    /\ pc = [t \in Threads |-> "idle"]
    /\ timestamp = 0
    /\ diff = 0
    /\ call = NoCall
    /\ history = <<>>
    /\ calls = 0
    /\ global_config = DefaultConfig
    /\ config_lock = NoThread
    /\ built = FALSE
    /\ host \in Hosts
    /\ made = NotMade
    /\ fleet = NoFleet

\* One call of SnowflakeIdWorker::new(host.config) on the host.
Construct ==
    /\ ~made.done
    /\ made' = new(host.config, host)
    /\ UNCHANGED <<clock, jumps, generator, lock, pc, timestamp, diff, call, history,
                   calls, globals, host, fleet>>

NextResolve == Construct

SpecResolve == InitResolve /\ [][NextResolve]_vars

\* ------------------------------------------------- two generator instances
\* Two SnowflakeIdWorker values of the default configuration, each used by one
\* caller and each with a clock of its own: every clock read of a call is any
\* value of ClockReadings.
Instances == {"a", "b"}
ClockReadings == -1 .. MaxClock
PairWorkerIds == {0, 1, 7, 255}

\* SnowflakeIdWorker::new with the default configuration and a resolved
\* worker_id; ids collects what next_id returned.
NewWorker(wid) ==
    [config |-> DefaultConfig, worker_id |-> wid, sequence |-> 0,
     last_timestamp |-> -1, ids |-> {}]

\* self.last_timestamp = timestamp; Ok(id)
Emit(g, ts, seq) ==
    [g EXCEPT !.sequence = seq, !.last_timestamp = ts,
              !.ids = @ \cup {AssembleId(g.config, g.worker_id, ts, seq)}]

\* The sequence logic of next_id on the instance g; spin is the clock read
\* that ends wait_next_millis.
StepOf(g, ts, spin) ==
    IF ts = g.last_timestamp
    THEN LET s == NextSequence(g.sequence, g.config) IN
         IF s = 0
         THEN IF time_gen(spin).ok
              THEN Emit(g, spin, s)
              ELSE [g EXCEPT !.sequence = s]
         ELSE Emit(g, ts, s)
    ELSE Emit(g, ts, 0)

\* next_id on the instance g with the clock reads now (first), again (after
\* the tolerance sleep) and spin (the one that ends wait_next_millis).
next_id(g, now, again, spin) ==
    IF ~time_gen(now).ok THEN g
    ELSE IF now < g.last_timestamp
         THEN IF WithinTolerance(g.last_timestamp - now, g.config)
              THEN IF time_gen(again).ok THEN StepOf(g, again, spin) ELSE g
              ELSE g
         ELSE StepOf(g, now, spin)

InitPair ==
    /\ clock = 0
    /\ jumps = 0
    /\ config = DefaultConfig
    /\ worker_id = 0
    /\ sequence = 0
    /\ last_timestamp = -1
    /\ lock = NoThread
    /\ pc = [t \in Threads |-> "idle"]
    /\ timestamp = 0
    /\ diff = 0
    /\ call = NoCall
    /\ history = <<>>
    /\ calls = 0
    /\ global_config = DefaultConfig
    /\ config_lock = NoThread
    /\ built = FALSE
    /\ host = NoHost
    /\ made = NoWorker
    /\ \E wa, wb \in PairWorkerIds :
           /\ wa # wb
           /\ fleet = [a |-> NewWorker(wa), b |-> NewWorker(wb)]

\* One call of next_id on one of the two instances.
PairCall(w) ==
    /\ calls < MaxCalls
    /\ calls' = calls + 1
    /\ \E now, again, spin \in ClockReadings :
           /\ spin < 0 \/ ~StillWaiting(spin, fleet[w].last_timestamp)
           /\ fleet' = [fleet EXCEPT ![w] = next_id(@, now, again, spin)]
    /\ UNCHANGED <<clock, jumps, generator, lock, pc, timestamp, diff, call, history,
                   globals, host, made>>

NextPair == \E w \in Instances : PairCall(w)

SpecPair == InitPair /\ [][NextPair]_vars

\* ------------------------------------------------- the first call on a host
\* get_next_id in a fresh process: the first dereference of GLOBAL_WORKER
\* runs SnowflakeIdWorker::new(None) on the host and unwraps its result.
FirstCallHosts ==
    [config : {NoneConfig}, build : Builds,
     env : {None, Some(<<"2", "5", "5">>), Some(<<"7", "x">>)},
     local : {None, Some(FileMalformed)}, etc : {None},
     probe : {None, Some(<<192, 168, 1, 100>>)}, hostname : {None}]

InitFirstCall ==
    /\ clock = 0
    /\ jumps = 0
    /\ config = NoConfig
    /\ worker_id = 0
    /\ sequence = 0
    /\ last_timestamp = -1
    /\ lock = NoThread
    /\ pc = [t \in Threads |-> "idle"]
    /\ timestamp = 0
    /\ diff = 0
    /\ call = NoCall
    /\ history = <<>>
    /\ calls = 0
    /\ global_config = DefaultConfig
    /\ config_lock = NoThread
    /\ built = FALSE
    /\ host \in FirstCallHosts
    /\ made = NotMade
    /\ fleet = NoFleet

\* Lazy::new(|| Mutex::new(SnowflakeIdWorker::new(None).expect(..))), run by
\* the thread whose get_next_id dereferences GLOBAL_WORKER first: an Err of
\* new makes expect panic in that thread.
InitialiseWorker(t) ==
    /\ pc[t] = "lock"
    /\ ~built
    /\ ~made.done
    /\ made' = new(NoneConfig, host)
    /\ IF made'.ok
       THEN /\ built' = TRUE
            /\ config' = made'.config
            /\ worker_id' = made'.worker_id
            /\ sequence' = made'.sequence
            /\ last_timestamp' = made'.last_timestamp
            /\ UNCHANGED pc
       ELSE /\ pc' = [pc EXCEPT ![t] = "panicked"]
            /\ UNCHANGED <<built, config, worker_id, sequence, last_timestamp>>
    /\ UNCHANGED <<clock, jumps, lock, timestamp, diff, call, history, calls,
                   global_config, config_lock, host, fleet>>

\* The generator has the default configuration (no wait_next_millis within
\* MaxCalls calls); the clock is stepped backward at most once.
NextFirstCall ==
    \/ Tick
    \/ (jumps = 0 /\ BackJump)
    \/ \E t \in Threads : InitialiseWorker(t)
    \/ \E t \in Threads : Call(t)
    \/ \E t \in Threads : Acquire(t)
    \/ \E t \in Threads : FirstRead(t)
    \/ \E t \in Threads : Sleep(t)
    \/ \E t \in Threads : Reread(t)

SpecFirstCall == InitFirstCall /\ [][NextFirstCall]_vars

\* ----------------------------------------------------------------- claims
\* The calls that returned an ID / the positions of history.
Calls == DOMAIN history
IsOk(i) == history[i].kind = "Ok"
\* Every clock read the call made returned a value (time_gen did not fail).
ClockReadsOk(i) == history[i].kind # "ConfigError"

\* C1: all IDs returned by the shared generator (default configuration) are
\* pairwise distinct, and no (timestamp, sequence) pair is assigned twice.
C1_AllIdsDistinct ==
    \A i, j \in Calls :
        (config = DefaultConfig /\ i < j /\ IsOk(i) /\ IsOk(j)) =>
            /\ history[i].id # history[j].id
            /\ <<history[i].last, history[i].seq>> # <<history[j].last, history[j].seq>>

\* C2: of two successful calls on the shared generator (default
\* configuration), the one that took the lock later returns an ID that is
\* greater than or equal to the other's.
C2_IdsInLockOrder ==
    \A i, j \in Calls :
        (config = DefaultConfig /\ i < j /\ IsOk(i) /\ IsOk(j))
            => history[j].id >= history[i].id

\* C3: a successful call never commits a last_timestamp below the one the
\* generator held before the call.
C3_LastTimestampNeverDecreases ==
    \A i \in Calls : IsOk(i) => history[i].last >= history[i].pre_last
\* C4: when 2^sequence_bits consecutive calls all read the same millisecond
\* T, new to the generator at the first of them, they return the sequence
\* values 0, 1, ..., 2^sequence_bits - 1 in that order; the next call, reading
\* T again (its clock reads succeeding), wraps the sequence, waits until the
\* clock exceeds T and returns an ID with timestamp field > T and sequence 0.
C4_SequenceRollover ==
    \A i \in Calls :
        LET n == Pow2(config.sequence_bits)
            T == history[i].read
            run == i .. (i + n - 1)
        IN  ( /\ i + n - 1 <= Len(history)
              /\ T > history[i].pre_last
              /\ \A k \in run : history[k].read = T )
            =>
            /\ \A k \in run :
                   /\ IsOk(k)
                   /\ history[k].last = T
                   /\ history[k].seq = k - i
            /\ ( /\ i + n <= Len(history)
                 /\ history[i + n].read = T
                 /\ ClockReadsOk(i + n) )
               =>
               /\ IsOk(i + n)
               /\ history[i + n].spun
               /\ history[i + n].last > T
               /\ history[i + n].seq = 0
               /\ Shr(history[i + n].id, timestamp_shift(config)) > T
               /\ BitAnd(history[i + n].id, sequence_mask(config)) = 0

\* C4 witness: a full millisecond followed by a call that waited for the next.
C4_Witness ==
    \E i \in Calls :
        LET n == Pow2(config.sequence_bits) IN
        /\ i + n <= Len(history)
        /\ history[i].read > history[i].pre_last
        /\ \A k \in i .. (i + n) : history[k].read = history[i].read /\ IsOk(k)
        /\ history[i + n].spun

\* C5: a call that reads the clock behind last_timestamp by no more than
\* max_backward_ms does not fail: after its wait and re-read it returns an ID
\* whose timestamp is >= the timestamp of the previous successful call.
C5_ToleratedBackwardSucceeds ==
    \A i \in Calls :
        (history[i].slept /\ ClockReadsOk(i)) =>
            /\ IsOk(i)
            /\ history[i].last >= history[i].pre_last

\* C6: a call that reads the clock behind last_timestamp by more than
\* max_backward_ms returns ClockBackward, produces no ID and leaves sequence
\* and last_timestamp as they were; the following call, reading a clock value
\* >= last_timestamp (its clock reads succeeding), finds the state the failed
\* call found and succeeds.
C6_ClockBackwardRejected ==
    \A i \in Calls :
        ( /\ history[i].read >= 0
          /\ history[i].pre_last - history[i].read > config.max_backward_ms )
        =>
        /\ history[i].kind = "ClockBackward"
        /\ history[i].id = 0
        /\ ~history[i].slept
        /\ history[i].last = history[i].pre_last
        /\ history[i].seq = history[i].pre_seq
        /\ (i + 1 <= Len(history)) =>
              /\ history[i + 1].pre_last = history[i].pre_last
              /\ history[i + 1].pre_seq = history[i].pre_seq
              /\ ( /\ history[i + 1].read >= history[i + 1].pre_last
                   /\ ClockReadsOk(i + 1) )
                 =>
                 /\ IsOk(i + 1)
                 /\ history[i + 1].last >= history[i].pre_last

\* C6 witness: a rejected call followed by a successful one.
C6_Witness ==
    \E i \in Calls :
        /\ history[i].kind = "ClockBackward"
        /\ i + 1 <= Len(history)
        /\ history[i + 1].read >= history[i + 1].pre_last
        /\ IsOk(i + 1)

\* C7: a successful call that commits the previous last_timestamp returns
\* the previous sequence + 1, and one that commits a greater timestamp
\* returns sequence 0; so clock readings c, c, c + 1 on a fresh generator give
\* sequences 0, 1, 0 with the third timestamp field one above the first two.
C7_SequenceStepRule ==
    /\ \A i \in Calls :
           IsOk(i) =>
               /\ (history[i].last = history[i].pre_last)
                      => history[i].seq = history[i].pre_seq + 1
               /\ (history[i].last > history[i].pre_last) => history[i].seq = 0
    /\ ( /\ Len(history) >= 3
         /\ config.sequence_bits > 0
         /\ history[1].read >= 0
         /\ history[2].read = history[1].read
         /\ history[3].read = history[1].read + 1 )
       =>
       /\ \A k \in 1 .. 3 : IsOk(k)
       /\ <<history[1].seq, history[2].seq, history[3].seq>> = <<0, 1, 0>>
       /\ Shr(history[1].id, timestamp_shift(config)) = history[1].read
       /\ Shr(history[2].id, timestamp_shift(config)) = history[1].read
       /\ Shr(history[3].id, timestamp_shift(config)) = history[1].read + 1

\* C7 witness: the scenario of readings c, c, c + 1 on a fresh generator.
C7_Witness ==
    /\ Len(history) >= 3
    /\ history[1].read >= 0
    /\ history[2].read = history[1].read
    /\ history[3].read = history[1].read + 1
    /\ <<history[1].seq, history[2].seq, history[3].seq>> = <<0, 1, 0>>

\* C8: under the default configuration every returned ID is
\* timestamp << 20 | worker_id << 12 | sequence for the committed timestamp
\* and sequence, and decoding gives them back: id & 0xFFF is the sequence,
\* (id >> 12) & 0xFF the worker_id, id >> 20 the timestamp.
C8_DefaultLayoutRoundTrip ==
    \A i \in Calls :
        (IsOk(i) /\ config = DefaultConfig) =>
            /\ history[i].id = history[i].last * 1048576 + worker_id * 4096 + history[i].seq
            /\ BitAnd(history[i].id, 4095) = history[i].seq
            /\ BitAnd(Shr(history[i].id, 12), 255) = worker_id
            /\ Shr(history[i].id, 20) = history[i].last

\* C8 witness: an ID of the default configuration with all three fields set.
C8_Witness ==
    \E i \in Calls :
        /\ IsOk(i)
        /\ config = DefaultConfig
        /\ history[i].last > 0
        /\ history[i].seq > 0
        /\ worker_id > 0

\* C9 as claimed: bits 63-22 hold the milliseconds since the epoch, bits
\* 21-12 the worker identity and bits 11-0 the sequence.
C9_LayoutAsClaimed ==
    \A i \in Calls :
        (IsOk(i) /\ config = DefaultConfig) =>
            /\ history[i].id \div Pow2(22) = history[i].last
            /\ (history[i].id % Pow2(22)) \div Pow2(12) = worker_id
            /\ history[i].id % Pow2(12) = history[i].seq

\* C9 amended: under the default configuration bits 63-20 hold the
\* milliseconds since the epoch, bits 19-12 the 8-bit worker identity and bits
\* 11-0 the 12-bit sequence.
C9_LayoutBits ==
    \A i \in Calls :
        (IsOk(i) /\ config = DefaultConfig) =>
            /\ history[i].id \div Pow2(20) = history[i].last
            /\ (history[i].id % Pow2(20)) \div Pow2(12) = worker_id
            /\ worker_id < Pow2(8)
            /\ history[i].id % Pow2(12) = history[i].seq
            /\ history[i].seq < Pow2(12)

\* C9 witness: a default-configuration ID whose timestamp is not a multiple
\* of four, so that bits 21-20 are not all zero.
C9_Witness ==
    \E i \in Calls :
        /\ IsOk(i)
        /\ config = DefaultConfig
        /\ history[i].last % 4 # 0

\* C10: at most one thread is inside next_id (or holds the generator in
\* demo) at a time, it is the owner of the mutex, and sequence and
\* last_timestamp change only in a step of the thread that owns the mutex.
InNextId(t) == pc[t] \in {"time_gen", "sleep", "reread", "wait_next_millis"}
HoldsGenerator(t) == InNextId(t) \/ pc[t] = "demo"

C10_MutualExclusion ==
    /\ [](/\ \A t \in Threads : HoldsGenerator(t) => lock = t
          /\ \A t, u \in Threads : (HoldsGenerator(t) /\ HoldsGenerator(u)) => t = u)
    /\ [][(sequence' # sequence \/ last_timestamp' # last_timestamp)
            => (lock \in Threads /\ InNextId(lock) /\ pc'[lock] # pc[lock]
                /\ \A u \in Threads \ {lock} : pc'[u] = pc[u])]_vars

\* C10 witness: one thread waits inside next_id, holding the mutex, while the
\* other is blocked on it.
C10_Witness ==
    \E t, u \in Threads :
        /\ t # u
        /\ pc[t] \in {"sleep", "wait_next_millis"}
        /\ lock = t
        /\ pc[u] = "lock"

\* C11: no thread waits for (or is about to request) one of the two global
\* mutexes while it owns the other or the same one, no thread owns both, and
\* the threads are never all blocked on mutexes.
C11_NoHoldAndWait ==
    /\ \A t \in Threads :
           pc[t] \in {"idle", "lock", "config_lock"} => (lock # t /\ config_lock # t)
    /\ \A t \in Threads : ~(lock = t /\ config_lock = t)
    /\ ~ \A t \in Threads :
           \/ pc[t] = "lock" /\ lock # NoThread
           \/ pc[t] = "config_lock" /\ config_lock # NoThread

\* C11 witness: both mutexes are owned at once, by different threads, one of
\* them inside next_id.
C11_Witness ==
    \E t, u \in Threads :
        /\ t # u
        /\ lock = t
        /\ InNextId(t)
        /\ config_lock = u

\* C13: a set_global_config store leaves the constructed generator's
\* configuration, worker_id, sequence and last_timestamp as they are, the
\* generator's configuration and worker_id never change once it is built, and
\* the IDs and the tolerance decisions follow the configuration it was built
\* with (8 + 12 bits, 10 ms) whatever GLOBAL_CONFIG holds.
C13_SetConfigLeavesGenerator ==
    /\ [][(global_config' # global_config) => UNCHANGED generator]_vars
    /\ [][built => (config' = config /\ worker_id' = worker_id)]_vars
    /\ [](\A i \in Calls :
            /\ IsOk(i) =>
                 /\ Shr(history[i].id, 20) = history[i].last
                 /\ BitAnd(Shr(history[i].id, 12), 255) = worker_id
                 /\ BitAnd(history[i].id, 4095) = history[i].seq
            /\ ( /\ history[i].read >= 0
                 /\ history[i].read < history[i].pre_last
                 /\ history[i].pre_last - history[i].read <= 10 ) => history[i].slept)

\* C13 witness: GLOBAL_CONFIG holds a tolerance of 1 ms while a call is
\* sleeping out a backward step of 2 ms or more.
C13_Witness ==
    /\ built
    /\ global_config = NarrowConfig
    /\ \E t \in Threads : pc[t] = "sleep" /\ diff >= 2

\* C14: the shared generator, when it is lazily constructed, uses the
\* configuration that set_global_config installed before.
C14_ConstructionUsesGlobalConfig ==
    [][(~built /\ built') => config' = global_config]_vars

\* C12: provided the clock gets past last_timestamp again and again while a
\* call spins in wait_next_millis, and the time a sleep takes can pass, every
\* get_next_id call, whether it waits for the mutex, spins or sleeps, eventually
\* returns.
ClockAdvances ==
    \A t \in Threads :
        /\ []<>(pc[t] = "wait_next_millis" => clock > last_timestamp)
        /\ []<>(pc[t] = "sleep" => clock + diff + 1 <= MaxClock)

C12_EveryCallReturns ==
    ClockAdvances =>
        \A t \in Threads : (pc[t] = "lock" \/ InNextId(t)) ~> (pc[t] = "idle")

\* C12 witness: a call that slept out a backward step has returned an ID
\* while the other thread was blocked on the mutex it held.
C12_Witness ==
    /\ \E i \in Calls : i = Len(history) /\ history[i].slept /\ IsOk(i)
    /\ \E t \in Threads : pc[t] = "lock"
    /\ lock = NoThread

\* C15: two generator instances of the default configuration with different
\* worker identities never return the same ID, whatever clock values their
\* calls read.
C15_DistinctAcrossWorkers == fleet.a.ids \cap fleet.b.ids = {}

\* C15 witness: the two instances have returned IDs with the same timestamp
\* and the same sequence.
C15_Witness ==
    \E x \in fleet.a.ids, y \in fleet.b.ids :
        /\ Shr(x, 20) = Shr(y, 20)
        /\ BitAnd(x, 4095) = BitAnd(y, 4095)
        /\ Shr(x, 20) > 0

\* The environment strategy's yield on the host: the value of
\* SNOWFLAKE_WORKER_ID when it is set and parses as an unsigned byte.
EnvYield == IF host.env.some THEN parse_u8(host.env.v) ELSE None

\* C16: when SNOWFLAKE_WORKER_ID is set and parses as an unsigned byte (e.g.
\* "50", "255"), the constructed generator's worker_id is that value and no
\* other strategy is tried, whatever the config files and the probe hold; the
\* strategies are tried in the order environment, config file, IP, the config
\* file only when the environment yields nothing and the IP only when the
\* config file yields nothing as well.
C16_EnvironmentFirst ==
    made.ok =>
        /\ EnvYield.some =>
               /\ made.worker_id = EnvYield.v
               /\ made.by = "env"
               /\ made.tried = <<"env">>
        /\ (host.env.some /\ host.env.v = <<"5", "0">>) => made.worker_id = 50
        /\ (host.env.some /\ host.env.v = <<"2", "5", "5">>) => made.worker_id = 255
        /\ made.tried \in {<<"env">>, <<"env", "config">>, <<"env", "config", "ip">>}
        /\ Len(made.tried) >= 2 => ~EnvYield.some
        /\ Len(made.tried) >= 3 => ~try_config_mapping(host).some

\* C16 witness: the variable decided although a complete config file and a
\* probed address were there, each giving another worker_id.
C16_Witness ==
    /\ made.ok
    /\ made.by = "env"
    /\ host.local.some
    /\ host.local.v = FileComplete
    /\ host.probe.some
    /\ made.worker_id # parse_config(FileComplete).v
    /\ made.worker_id # ip_worker_id(host.probe.v)

\* C17: whatever the environment variable (absent, valid, unparseable), the
\* config files (absent, complete, incomplete, malformed) and the probe and
\* hostname outcomes are, a constructor call that gets past its width
\* arithmetic returns Ok, and exactly one strategy, the last one tried, has
\* set worker_id to its own result.
C17_ResolutionNeverFails ==
    (made.done /\ made.err # "panic") =>
        /\ made.ok
        /\ made.by \in {"env", "config", "ip"}
        /\ made.tried # <<>>
        /\ made.tried[Len(made.tried)] = made.by
        /\ made.by = "env" => made.worker_id = EnvYield.v
        /\ made.by = "config" => made.worker_id = try_config_mapping(host).v
        /\ made.by = "ip" => made.worker_id = generate_ip_based_worker_id(host).v

\* C17 witness: an unparseable variable, a malformed file, a failed probe and
\* a failed hostname lookup, and the constructor returned Ok.
C17_Witness ==
    /\ made.ok
    /\ host.env.some
    /\ ~EnvYield.some
    /\ host.local.some
    /\ host.local.v = FileMalformed
    /\ ~host.probe.some
    /\ ~host.hostname.some

\* The entries of a key = value file: the <<key, value>> pairs of its lines
\* that are not blank, not comments and contain "=".
EntriesOf(content) ==
    LET ls == lines(content) IN
    { <<trim(split(ls[k], "=")[1]), trim(SubSeq(ls[k], find(ls[k], "=", 1) + 1, Len(ls[k])))>> :
        k \in { n \in 1 .. Len(ls) :
                  /\ Len(trim(ls[n])) > 0
                  /\ ~starts_with(trim(ls[n]), <<"#">>)
                  /\ find(ls[n], "=", 1) > 0 } }

\* The unsigned-byte values a file supplies for a key.
Supplied(content, key) ==
    { parse_u8(e[2]).v : e \in { x \in EntriesOf(content) : x[1] = key /\ parse_u8(x[2]).some } }

\* The key has no entry in the file.
Missing(content, key) == \A e \in EntriesOf(content) : e[1] # key

\* The file the config-file strategy reads: the first readable one.
ConfigFile ==
    IF host.local.some THEN host.local ELSE host.etc

\* C18: when the config-file strategy is reached and the file supplies
\* unsigned-byte values for both datacenter_id and machine_id, the worker_id
\* is ((datacenter_id & 0x03) << 6) | (machine_id & 0x3F) of supplied values;
\* when the file has no datacenter_id entry or no machine_id entry, the
\* strategy yields nothing and the IP strategy decides.
C18_ConfigFileFormula ==
    (made.ok /\ ~EnvYield.some /\ ConfigFile.some) =>
        /\ ( /\ Supplied(ConfigFile.v, KeyDatacenter) # {}
             /\ Supplied(ConfigFile.v, KeyMachine) # {} )
           =>
           /\ made.by = "config"
           /\ \E dc \in Supplied(ConfigFile.v, KeyDatacenter),
                 m \in Supplied(ConfigFile.v, KeyMachine) :
                  made.worker_id = (dc % 4) * 64 + (m % 64)
        /\ (Missing(ConfigFile.v, KeyDatacenter) \/ Missing(ConfigFile.v, KeyMachine))
           => made.by = "ip"

\* C19: when the IP strategy decides, worker_id is
\* ((third_octet & 0x0F) << 4) | (fourth_octet & 0x0F) of the probed address,
\* and 1 (from 127.0.0.1) when the probe failed.
C19_NetworkDerivedFormula ==
    (made.ok /\ made.by = "ip") =>
        /\ host.probe.some =>
               made.worker_id = (host.probe.v[3] % 16) * 16 + (host.probe.v[4] % 16)
        /\ ~host.probe.some => made.worker_id = 1

\* C19 witness: the IP strategy decided from a probed address whose last two
\* octets both exceed four bits.
C19_Witness ==
    /\ made.ok
    /\ made.by = "ip"
    /\ host.probe.some
    /\ host.probe.v[3] > 15
    /\ host.probe.v[4] > 15
    /\ made.worker_id = 255

\* C20: a constructor call with a configuration that violates
\* worker_id_bits + sequence_bits < 64 returns ConfigError and builds no
\* generator.
C20_InvalidConfigRejected ==
    ( /\ made.done
      /\ host.config.some
      /\ host.config.v.worker_id_bits + host.config.v.sequence_bits >= 64 )
    =>
    /\ ~made.ok
    /\ made.err = "ConfigError"

\* C21: in every reachable state of a generator, after any successful and
\* failed next_id calls, 0 <= sequence <= 2^sequence_bits - 1.
C21_SequenceInRange ==
    /\ sequence >= 0
    /\ sequence <= Pow2(config.sequence_bits) - 1

\* C21 witness: the sequence stands at its maximum after a call has failed
\* and a call has succeeded.
C21_Witness ==
    /\ sequence = Pow2(config.sequence_bits) - 1
    /\ \E i \in Calls : ~IsOk(i)
    /\ \E i \in Calls : IsOk(i)

\* C22: for every configuration the constructor accepts (here: those with
\* worker_id_bits + sequence_bits < 64), the worker_id it
\* resolved is below 2^worker_id_bits (a u8 always is when worker_id_bits is 8
\* or more), so that in an assembled ID the worker field stays out of the
\* timestamp field: the ID of timestamp 1 decodes to timestamp 1.
C22_WorkerIdFitsWidth ==
    ( /\ made.ok
      /\ made.config.worker_id_bits + made.config.sequence_bits < 64
      /\ made.config.worker_id_bits < 8 )
    =>
        /\ made.worker_id < Pow2(made.config.worker_id_bits)
        /\ Shr(AssembleId(made.config, made.worker_id, 1, 0),
               timestamp_shift(made.config)) = 1

\* C23: a call that returned an error of any kind left sequence and
\* last_timestamp as they were before it, and no two successful calls were
\* assigned the same (timestamp, sequence) pair with only failed calls
\* between them.
C23_ErrorLeavesState ==
    /\ \A i \in Calls :
           ~IsOk(i) =>
               /\ history[i].seq = history[i].pre_seq
               /\ history[i].last = history[i].pre_last
    /\ \A i, j \in Calls :
           ( /\ i + 1 < j
             /\ IsOk(i)
             /\ IsOk(j)
             /\ \A k \in (i + 1) .. (j - 1) : ~IsOk(k) )
           => <<history[i].last, history[i].seq>> # <<history[j].last, history[j].seq>>

\* C24: from the start of a tolerance sleep or a sequence-exhaustion spin to
\* the return of the waiting call, the waiting thread owns the mutex, no
\* other thread enters next_id, and the only call that completes is the
\* waiting one.
Waiting(t) == pc[t] \in {"sleep", "reread", "wait_next_millis"}

C24_WaitHoldsLock ==
    /\ [](\A t \in Threads : Waiting(t) => lock = t)
    /\ [][\A t \in Threads :
            Waiting(t) =>
                /\ \A u \in Threads \ {t} : InNextId(u)' = InNextId(u)
                /\ history' # history =>
                       (pc'[t] = "idle" /\ Len(history') = Len(history) + 1)]_vars

\* C24 witness: a call has finished its sleep and not yet returned, while
\* the other thread is blocked on the mutex.
C24_Witness ==
    \E t, u \in Threads :
        /\ pc[t] = "reread"
        /\ pc[u] = "lock"
        /\ lock = t

\* C25: the shared generator is constructed once: after it exists it is
\* never constructed again (its identity and configuration stay, its
\* sequence and last_timestamp are never set back to those of a new
\* instance), and no call is inside next_id before it exists.
C25_ConstructedOnce ==
    /\ [](\A t \in Threads : HoldsGenerator(t) => built)
    /\ [][built =>
            /\ built'
            /\ worker_id' = worker_id
            /\ config' = config
            /\ last_timestamp >= 0 => last_timestamp' >= 0]_vars

\* C25 witness: both threads made their first call before any call
\* completed; the generator exists and one of them is inside next_id.
C25_Witness ==
    /\ built
    /\ history = <<>>
    /\ \E t, u \in Threads : pc[t] = "time_gen" /\ pc[u] = "lock"

\* C26: no step of a next_id call, successful or failed, changes worker_id,
\* the configuration or the shifts and the mask derived from it (the epoch is
\* the fixed origin of the clock values); only sequence and last_timestamp
\* change.
C26_NextIdKeepsIdentity ==
    [][ /\ worker_id' = worker_id
        /\ config' = config
        /\ worker_id_shift(config') = worker_id_shift(config)
        /\ timestamp_shift(config') = timestamp_shift(config)
        /\ sequence_mask(config') = sequence_mask(config) ]_vars

\* C26 witness: a call that slept has returned an ID and a call has been
\* rejected with ClockBackward.
C26_Witness ==
    /\ \E i \in Calls : IsOk(i) /\ history[i].slept
    /\ \E i \in Calls : history[i].kind = "ClockBackward"

\* C27: when ./snowflake.toml can be read (and the environment yields
\* nothing), /etc/snowflake.toml plays no part: the constructor's result is
\* the one it gives with no /etc file at all; and when ./snowflake.toml has
\* no datacenter_id entry or no machine_id entry, the config-file strategy
\* yields nothing and the IP strategy decides the worker_id.
C27_FirstFileWins ==
    (made.ok /\ ~EnvYield.some /\ host.local.some) =>
        /\ made = new(host.config, [host EXCEPT !.etc = None])
        /\ (Missing(host.local.v, KeyDatacenter) \/ Missing(host.local.v, KeyMachine))
           =>
           /\ made.by = "ip"
           /\ made.worker_id = generate_ip_based_worker_id(host).v

\* The value of a text of decimal digits, None for any other text.
RECURSIVE DecimalValue(_, _)
DecimalValue(s, acc) ==
    IF Len(s) = 0 THEN Some(acc)
    ELSE IF Head(s) \notin DigitChars THEN None
    ELSE DecimalValue(Tail(s), acc * 10 + DigitValue(Head(s)))

\* The non-negative integers a file supplies for a key, of any size.
SuppliedInteger(content, key) ==
    { DecimalValue(e[2], 0).v :
        e \in { x \in EntriesOf(content) :
                  x[1] = key /\ Len(x[2]) > 0 /\ DecimalValue(x[2], 0).some } }

\* C28: when the config-file strategy is reached and the file supplies
\* non-negative integers for both keys, one of them out of range
\* (datacenter_id above 3 or machine_id above 63), the value is not rejected:
\* the strategy determines the worker_id from the values masked to 2 and 6
\* bits.
C28_OutOfRangeMasked ==
    (made.ok /\ ~EnvYield.some /\ ConfigFile.some) =>
        LET dcs == SuppliedInteger(ConfigFile.v, KeyDatacenter)
            ms == SuppliedInteger(ConfigFile.v, KeyMachine)
        IN  ( /\ dcs # {}
              /\ ms # {}
              /\ (\E dc \in dcs : dc > 3) \/ (\E m \in ms : m > 63) )
            =>
            /\ made.by = "config"
            /\ \E dc \in dcs, m \in ms : made.worker_id = (dc % 4) * 64 + (m % 64)

====
